---- MODULE Spec2Model ----
(***************************************************************************)
(* Model of the canvas editor of aeperea/canvas-proj: the coordinate       *)
(* transform, the scene graph, the resize handles, the undo/redo history   *)
(* and the pointer/keyboard handlers of App.tsx.                           *)
(*                                                                         *)
(* JavaScript numbers are modelled as exact rationals <<n, d>> (d > 0, in  *)
(* lowest terms), so that division by the zoom is computed, not assumed.   *)
(* Each React handler is one atomic action; the `state` a handler closes   *)
(* over is history.present of the last render, which is the current one    *)
(* because React re-renders between discrete events.                       *)
(***************************************************************************)
EXTENDS Integers, Sequences, FiniteSets, TLC

VARIABLES
    history,        \* App.tsx: const [history, setHistory] (past, present, future)
    isPanning,      \* App.tsx: isPanningRef.current
    lastMousePos,   \* App.tsx: lastMousePosRef.current
    cursorStyle,    \* App.tsx: const [cursorStyle, setCursorStyle]
    held,           \* environment: the mouse buttons that are down over the canvas
    gesture,        \* observer: the course of the last resize/drag gesture
    lastKey,        \* observer: what the last event did, when it was a shortcut,
                    \* a commit that found a redo branch, or a storage event
                    \* that replaced a history with entries
    nEvents,        \* environment: number of events delivered so far
    nWheel,         \* environment: number of wheel events among them
    renderLoop,     \* RenderLoop.ts: the fields animationFrameId and isDirty
    frames          \* environment: the animation frames requested and not yet
                    \* fired or cancelled, the next frame id; observer: the
                    \* markDirty calls since the last frame, the calls of the
                    \* render callback

vars == <<history, isPanning, lastMousePos, cursorStyle, held, gesture, lastKey,
          nEvents, nWheel, renderLoop, frames>>

-----------------------------------------------------------------------------
(* Bounds of the model *)

\* the number of events (pointer, wheel, keyboard, storage) of a run
MaxEvents == 4
\* the number of wheel events of a run
MaxWheel == 1
\* the number of wheel events of a run of wheel events only
MaxZooms == 3
\* the number of markDirty calls of a run of the render loop
MaxMarks == 5

-----------------------------------------------------------------------------
(* JavaScript numbers as exact rationals *)

Abs(i) == IF i < 0 THEN -i ELSE i

RECURSIVE Gcd(_, _)
Gcd(a, b) == IF b = 0 THEN a ELSE Gcd(b, a % b)

\* the rational n/d (d # 0) in lowest terms with a positive denominator
Norm(n, d) ==
    LET s == IF d < 0 THEN -1 ELSE 1
        g == Gcd(Abs(n), Abs(d))
    IN  <<(s * n) \div g, (s * d) \div g>>

Num(i) == <<i, 1>>
Frac(n, d) == Norm(n, d)

Add(a, b) == Norm(a[1] * b[2] + b[1] * a[2], a[2] * b[2])
Sub(a, b) == Norm(a[1] * b[2] - b[1] * a[2], a[2] * b[2])
Mul(a, b) == Norm(a[1] * b[1], a[2] * b[2])
Div(a, b) == Norm(a[1] * b[2], a[2] * b[1])
Leq(a, b) == a[1] * b[2] <= b[1] * a[2]
Geq(a, b) == Leq(b, a)
MathMax(a, b) == IF Geq(a, b) THEN a ELSE b
MathMin(a, b) == IF Leq(a, b) THEN a ELSE b

Pt(x, y) == [x |-> Num(x), y |-> Num(y)]

-----------------------------------------------------------------------------
(* JavaScript's null and undefined *)

\* null and undefined where an object is expected
Null == [null |-> TRUE]
Undefined == [undefined |-> TRUE]
\* null where a string is expected (a shape id, a handle name)
NullStr == "null"
\* the truth value of an object-or-null-or-undefined value
Truthy(v) == v # Null /\ v # Undefined
\* the truth value of a string-or-null value
TruthyStr(s) == s # NullStr /\ s # ""

-----------------------------------------------------------------------------
(* canvas/CoordinateTransform.ts *)

worldToScreen(worldPos, transform) ==
    [x |-> Add(Mul(worldPos.x, transform.zoom), transform.panX),
     y |-> Add(Mul(worldPos.y, transform.zoom), transform.panY)]

\* a screenToWorld that adds the pan
screenToWorld_AddsPan(screenPos, transform) ==
    [x |-> Div(Add(screenPos.x, transform.panX), transform.zoom),
     y |-> Div(Add(screenPos.y, transform.panY), transform.zoom)]

screenToWorld(screenPos, transform) ==
    [x |-> Div(Sub(screenPos.x, transform.panX), transform.zoom),
     y |-> Div(Sub(screenPos.y, transform.panY), transform.zoom)]

applyPan(transform, panDelta) ==
    [transform EXCEPT !.panX = Add(transform.panX, panDelta.x),
                      !.panY = Add(transform.panY, panDelta.y)]

ZOOM_MIN == Frac(1, 10)
ZOOM_MAX == Num(5)

\* a zoom without the upper limit
applyZoom_NoUpperClamp(transform, zoomDelta, cursorScreenPos) ==
    LET worldPoint == screenToWorld(cursorScreenPos, transform)
        newZoom == MathMax(ZOOM_MIN, Mul(transform.zoom, Add(Num(1), zoomDelta)))
    IN  [panX |-> Sub(cursorScreenPos.x, Mul(worldPoint.x, newZoom)),
         panY |-> Sub(cursorScreenPos.y, Mul(worldPoint.y, newZoom)),
         zoom |-> newZoom]

\* a zoom that leaves the pan as it was
applyZoom_KeepsPan(transform, zoomDelta, cursorScreenPos) ==
    [transform EXCEPT !.zoom =
        MathMax(ZOOM_MIN, MathMin(ZOOM_MAX, Mul(transform.zoom, Add(Num(1), zoomDelta))))]

applyZoom(transform, zoomDelta, cursorScreenPos) ==
    LET worldPoint == screenToWorld(cursorScreenPos, transform)
        newZoom == MathMax(ZOOM_MIN,
                           MathMin(ZOOM_MAX, Mul(transform.zoom, Add(Num(1), zoomDelta))))
    IN  [panX |-> Sub(cursorScreenPos.x, Mul(worldPoint.x, newZoom)),
         panY |-> Sub(cursorScreenPos.y, Mul(worldPoint.y, newZoom)),
         zoom |-> newZoom]

-----------------------------------------------------------------------------
(* canvas/SceneGraph.ts *)

\* the initial state has no `dragging` property: reading it gives undefined
createInitialState ==
    [shapes |-> <<>>,
     selectedShapeId |-> NullStr,
     transform |-> [panX |-> Num(0), panY |-> Num(0), zoom |-> Num(1)],
     resizing |-> Null,
     dragging |-> Undefined]

DEFAULT_WIDTH == 100
DEFAULT_HEIGHT == 60

\* a rectangle created square
createRectangle_Square(id, x, y) ==
    [id |-> id, type |-> "rectangle", x |-> x, y |-> y,
     width |-> Num(100), height |-> Num(100)]

\* fill, stroke and strokeWidth are constants no handler reads; they are left out
createRectangle(id, x, y) ==
    [id |-> id, type |-> "rectangle", x |-> x, y |-> y,
     width |-> Num(DEFAULT_WIDTH), height |-> Num(DEFAULT_HEIGHT)]

\* an addShape that selects the new shape without adding it
addShape_DropsShape(state, shape) == [state EXCEPT !.selectedShapeId = shape.id]

addShape(state, shape) ==
    [state EXCEPT !.shapes = Append(state.shapes, shape),
                  !.selectedShapeId = shape.id]

\* {...s, ...updates}
Merge(s, updates) ==
    [f \in DOMAIN s \cup DOMAIN updates |->
        IF f \in DOMAIN updates THEN updates[f] ELSE s[f]]

\* an updateShape that drops the shape it should update
updateShape_RemovesShape(state, shapeId, updates) ==
    [state EXCEPT !.shapes = SelectSeq(state.shapes, LAMBDA s : s.id # shapeId)]

updateShape(state, shapeId, updates) ==
    [state EXCEPT !.shapes =
        [i \in 1..Len(state.shapes) |->
            IF state.shapes[i].id = shapeId
            THEN Merge(state.shapes[i], updates)
            ELSE state.shapes[i]]]

selectShape(state, shapeId) == [state EXCEPT !.selectedShapeId = shapeId]

MinOf(S) == CHOOSE i \in S : \A j \in S : i <= j

\* Array.prototype.find: the first match, or null
getShapeById(state, id) ==
    LET hits == {i \in 1..Len(state.shapes) : state.shapes[i].id = id}
    IN  IF hits = {} THEN Null ELSE state.shapes[MinOf(hits)]

setTransform(state, transform) == [state EXCEPT !.transform = transform]

-----------------------------------------------------------------------------
(* canvas/ResizeHandles.ts *)

HANDLE_SIZE == 8
HANDLE_HIT_MARGIN == 4
MIN_SIZE == 10

Half(a) == Div(a, Num(2))

getHandlePositions(rect) ==
    [h \in {"top-left", "top-right", "bottom-left", "bottom-right",
            "top", "right", "bottom", "left"} |->
        CASE h = "top-left" -> [x |-> rect.x, y |-> rect.y]
          [] h = "top-right" -> [x |-> Add(rect.x, rect.width), y |-> rect.y]
          [] h = "bottom-left" -> [x |-> rect.x, y |-> Add(rect.y, rect.height)]
          [] h = "bottom-right" ->
                [x |-> Add(rect.x, rect.width), y |-> Add(rect.y, rect.height)]
          [] h = "top" -> [x |-> Add(rect.x, Half(rect.width)), y |-> rect.y]
          [] h = "right" ->
                [x |-> Add(rect.x, rect.width), y |-> Add(rect.y, Half(rect.height))]
          [] h = "bottom" ->
                [x |-> Add(rect.x, Half(rect.width)), y |-> Add(rect.y, rect.height)]
          [] h = "left" -> [x |-> rect.x, y |-> Add(rect.y, Half(rect.height))]]

\* an order that tries the edge handles first
handleOrder_EdgesFirst ==
    <<"top", "right", "bottom", "left",
      "top-left", "top-right", "bottom-left", "bottom-right">>

handleOrder ==
    <<"top-left", "top-right", "bottom-left", "bottom-right",
      "top", "right", "bottom", "left">>

\* distance <= r, for the distance sqrt(dx^2 + dy^2) >= 0 and r >= 0, is
\* dx^2 + dy^2 <= r^2
DistanceWithin(a, b, r) ==
    LET dx == Sub(a.x, b.x)
        dy == Sub(a.y, b.y)
    IN  Leq(Add(Mul(dx, dx), Mul(dy, dy)), Mul(r, r))

hitTestHandle(worldPos, rect, transform) ==
    LET handles == getHandlePositions(rect)
        clickScreenPos == worldToScreen(worldPos, transform)
        radius == Add(Half(Num(HANDLE_SIZE)), Num(HANDLE_HIT_MARGIN))
        hits == {i \in 1..Len(handleOrder) :
                    DistanceWithin(worldToScreen(handles[handleOrder[i]], transform),
                                   clickScreenPos, radius)}
    IN  IF hits = {} THEN NullStr ELSE handleOrder[MinOf(hits)]

\* a clamp that moves the origin by the delta also when the size is clamped
ClampOrigin_MovesByDelta(origin, size, delta) ==
    LET newSize == Sub(size, delta)
    IN  <<Add(origin, delta), MathMax(Num(10), newSize)>>

\* a clamp that treats a proposed size of exactly the minimum as too small and
\* then leaves the origin where it was
ClampOrigin_StrictKeepsOrigin(origin, size, delta) ==
    LET newSize == Sub(size, delta)
    IN  IF Geq(newSize, Num(10)) /\ newSize # Num(10)
        THEN <<Add(origin, delta), newSize>>
        ELSE <<origin, Num(10)>>

\* the origin-moving branch shared by the handles that drag the left/top edge:
\* <<new origin, new size>> from the original origin and size and the delta
ClampOrigin(origin, size, delta) ==
    LET newSize == Sub(size, delta)
    IN  IF Geq(newSize, Num(MIN_SIZE))
        THEN <<Add(origin, delta), newSize>>
        ELSE <<Sub(Add(origin, size), Num(MIN_SIZE)), Num(MIN_SIZE)>>

\* a resize of the right or bottom edge without the minimum
ClampSize_NoClamp(size, delta) == Add(size, delta)

\* Math.max(MIN_SIZE, size + delta)
ClampSize(size, delta) == MathMax(Num(MIN_SIZE), Add(size, delta))

applyResize(originalRect, handle, currentWorldPos, startWorldPos) ==
    LET dx == Sub(currentWorldPos.x, startWorldPos.x)
        dy == Sub(currentWorldPos.y, startWorldPos.y)
        o == originalRect
        left == ClampOrigin(o.x, o.width, dx)
        top == ClampOrigin(o.y, o.height, dy)
    IN  CASE handle = "top-left" ->
                [o EXCEPT !.x = left[1], !.width = left[2],
                          !.y = top[1], !.height = top[2]]
          [] handle = "top-right" ->
                [o EXCEPT !.width = ClampSize(o.width, dx),
                          !.y = top[1], !.height = top[2]]
          [] handle = "bottom-left" ->
                [o EXCEPT !.x = left[1], !.width = left[2],
                          !.height = ClampSize(o.height, dy)]
          [] handle = "bottom-right" ->
                [o EXCEPT !.width = ClampSize(o.width, dx),
                          !.height = ClampSize(o.height, dy)]
          [] handle = "top" -> [o EXCEPT !.y = top[1], !.height = top[2]]
          [] handle = "right" -> [o EXCEPT !.width = ClampSize(o.width, dx)]
          [] handle = "bottom" -> [o EXCEPT !.height = ClampSize(o.height, dy)]
          [] handle = "left" -> [o EXCEPT !.x = left[1], !.width = left[2]]
          [] OTHER -> o

getCursorForHandle(handle) ==
    CASE handle \in {"top-left", "bottom-right"} -> "nwse-resize"
      [] handle \in {"top-right", "bottom-left"} -> "nesw-resize"
      [] handle \in {"top", "bottom"} -> "ns-resize"
      [] handle \in {"right", "left"} -> "ew-resize"

-----------------------------------------------------------------------------
(* utils/history.ts *)

createHistoryState(initialState) ==
    [past |-> <<>>, present |-> initialState, future |-> <<>>]

\* a push that keeps the redo branch
pushHistory_KeepsFuture(h, newState) ==
    [past |-> Append(h.past, h.present), present |-> newState, future |-> h.future]

pushHistory(h, newState) ==
    [past |-> Append(h.past, h.present), present |-> newState, future |-> <<>>]

\* an undo that puts the old present at the end of future
undo_AppendsToFuture(h) ==
    IF Len(h.past) = 0 THEN Null
    ELSE [past |-> SubSeq(h.past, 1, Len(h.past) - 1),
          present |-> h.past[Len(h.past)],
          future |-> Append(h.future, h.present)]

\* an undo that restores the oldest entry of past
undo_RestoresOldest(h) ==
    IF Len(h.past) = 0 THEN Null
    ELSE [past |-> SubSeq(h.past, 1, Len(h.past) - 1),
          present |-> h.past[1],
          future |-> <<h.present>> \o h.future]

\* null when there is nothing to undo
undo(h) ==
    IF Len(h.past) = 0 THEN Null
    ELSE [past |-> SubSeq(h.past, 1, Len(h.past) - 1),
          present |-> h.past[Len(h.past)],
          future |-> <<h.present>> \o h.future]

\* a redo that leaves the redone entry in future
redo_KeepsFuture(h) ==
    IF Len(h.future) = 0 THEN Null
    ELSE [past |-> Append(h.past, h.present),
          present |-> h.future[1],
          future |-> h.future]

\* a redo that forgets the old present
redo_DropsPresent(h) ==
    IF Len(h.future) = 0 THEN Null
    ELSE [past |-> h.past,
          present |-> h.future[1],
          future |-> SubSeq(h.future, 2, Len(h.future))]

\* null when there is nothing to redo
redo(h) ==
    IF Len(h.future) = 0 THEN Null
    ELSE [past |-> Append(h.past, h.present),
          present |-> h.future[1],
          future |-> SubSeq(h.future, 2, Len(h.future))]

-----------------------------------------------------------------------------
(* canvas/RenderLoop.ts *)

\* animationFrameId is null or the id requestAnimationFrame returned, a
\* non-zero integer: 0 stands for null
NullId == 0

\* the fields after the constructor
NewRenderLoop == [animationFrameId |-> NullId, isDirty |-> FALSE]

\* a scheduleRender that requests a frame also when one is pending
scheduleRender_Always(rl, id) == [rl EXCEPT !.animationFrameId = id]

\* scheduleRender, with id the value requestAnimationFrame would return:
\* the frame is requested when the result holds id
scheduleRender(rl, id) ==
    IF rl.animationFrameId # NullId THEN rl
    ELSE [rl EXCEPT !.animationFrameId = id]

-----------------------------------------------------------------------------
(* utils/persistence.ts *)

STORAGE_KEY == "canvas-proj-state"

\* localStorage.getItem gives null (no item), or a text: JSON.stringify(state),
\* or a text JSON.parse rejects.  JSON.stringify drops a property whose value
\* is undefined, and JSON.parse gives back an object without it.
NoItem == [kind |-> "none"]
CorruptItem == [kind |-> "corrupt"]
OptionalFields == {"resizing", "dragging"}
JSONstringify(state) ==
    [kind |-> "json",
     text |-> [f \in {g \in DOMAIN state :
                        g \in OptionalFields => state[g] # Undefined} |-> state[f]]]
JSONparse(text) ==
    [f \in {"shapes", "selectedShapeId", "transform", "resizing", "dragging"} |->
        IF f \in DOMAIN text THEN text[f] ELSE Undefined]

\* a loadState that gives the empty state for a text JSON.parse rejects
loadState_CorruptAsEmpty(item) ==
    IF item.kind = "none" THEN Null
    ELSE IF item.kind = "corrupt" THEN createInitialState
    ELSE JSONparse(item.text)

loadState(item) ==
    IF item.kind = "none" THEN Null
    ELSE IF item.kind = "corrupt" THEN Null
    ELSE JSONparse(item.text)

-----------------------------------------------------------------------------
(* Inputs *)

\* screen positions of the pointer: the corner (50,50), a point inside the
\* rectangle created there, and its bottom-right corner (150,110)
ScreenPoints == {Pt(50, 50), Pt(60, 70), Pt(150, 110)}
\* MouseEvent.button: 0 left, 1 middle (any other button changes nothing)
Buttons == {0, 1}
\* WheelEvent.deltaY
WheelDeltas == {-1000, 500}
StorageKeys == {STORAGE_KEY, "other-key"}

\* states the editor saves: the empty state, one rectangle at rest, and the
\* same rectangle in the middle of a drag (saveState runs on every change of
\* the present, also during a gesture)
SavedRect == createRectangle("shape_9", Num(50), Num(50))
SavedAtRest == [addShape(createInitialState, SavedRect) EXCEPT !.dragging = Null]
SavedInDrag ==
    [SavedAtRest EXCEPT !.dragging =
        [shapeId |-> "shape_9",
         startWorldPos |-> Pt(60, 70),
         startShapePos |-> Pt(50, 50)]]
\* what another tab has put in localStorage when the storage event arrives
StorageItems ==
    {NoItem, CorruptItem}
        \cup {JSONstringify(s) : s \in {createInitialState, SavedAtRest, SavedInDrag}}
\* what an earlier session has left in localStorage when the editor starts
InitialItems == {NoItem, JSONstringify(SavedAtRest)}

-----------------------------------------------------------------------------
(* App.tsx *)

Snapshots(h) ==
    {h.present} \cup {h.past[i] : i \in 1..Len(h.past)}
                \cup {h.future[i] : i \in 1..Len(h.future)}

UsedIds(h) == UNION {{s.shapes[i].id : i \in 1..Len(s.shapes)} : s \in Snapshots(h)}

\* SceneGraph.ts generateId: a timestamp and a random suffix, an id no shape
\* of the editor has yet; the least unused number stands for it
generateId(h) ==
    LET used == UsedIds(h)
        n == MinOf({k \in 1..(Cardinality(used) + 1) : ("shape_" \o ToString(k)) \notin used})
    IN  "shape_" \o ToString(n)

\* a transient update that also writes the new present over the entries of past
setState_RewritesPast(h, newPresent) ==
    [h EXCEPT !.present = newPresent,
              !.past = [i \in 1..Len(h.past) |-> newPresent]]

\* a transient update that is pushed like a commit
setState_Pushes(h, newPresent) ==
    [past |-> Append(h.past, h.present), present |-> newPresent, future |-> <<>>]

\* setHistory(prev => ({...prev, present: updater(prev.present)}))
setState(h, newPresent) == [h EXCEPT !.present = newPresent]

\* a commit that replaces the present and pushes nothing
updateStateWithHistory_NoPush(h, newPresent) == [h EXCEPT !.present = newPresent]

\* a commit that keeps the redo branch
updateStateWithHistory_KeepsFuture(h, newPresent) ==
    [past |-> Append(h.past, h.present), present |-> newPresent, future |-> h.future]

\* setHistory(prev => pushHistory(prev, updater(prev.present)))
updateStateWithHistory(h, newPresent) == pushHistory(h, newPresent)

\* worldPos.x >= shape.x && worldPos.x <= shape.x + shape.width && ... (y alike)
Contains(shape, worldPos) ==
    /\ Geq(worldPos.x, shape.x)
    /\ Leq(worldPos.x, Add(shape.x, shape.width))
    /\ Geq(worldPos.y, shape.y)
    /\ Leq(worldPos.y, Add(shape.y, shape.height))

\* a hit test that takes the last rectangle that contains the position
HitShape_Topmost(state, worldPos) ==
    LET hits == {i \in 1..Len(state.shapes) :
                    /\ state.shapes[i].type = "rectangle"
                    /\ Contains(state.shapes[i], worldPos)}
    IN  IF hits = {} THEN Null
        ELSE state.shapes[CHOOSE i \in hits : \A j \in hits : j <= i]

\* the hit-test loop of handleMouseDown: the first rectangle in creation order
\* that contains the position, or null
HitShape(state, worldPos) ==
    LET hits == {i \in 1..Len(state.shapes) :
                    /\ state.shapes[i].type = "rectangle"
                    /\ Contains(state.shapes[i], worldPos)}
    IN  IF hits = {} THEN Null ELSE state.shapes[MinOf(hits)]

\* the handle of the selected shape that handleMouseDown / handleMouseMove
\* find under the position, or null
SelectedHandle(state, worldPos) ==
    IF ~TruthyStr(state.selectedShapeId) THEN NullStr
    ELSE LET selectedShape == getShapeById(state, state.selectedShapeId)
         IN  IF Truthy(selectedShape) /\ selectedShape.type = "rectangle"
             THEN hitTestHandle(worldPos, selectedShape, state.transform)
             ELSE NullStr

\* a button-down that looks for a shape under the position before it looks
\* for a handle
LeftDown_ShapeFirst(state, pos) ==
    LET worldPos == screenToWorld(pos, state.transform)
        handle == SelectedHandle(state, worldPos)
        selectedShape == getShapeById(state, state.selectedShapeId)
        hitShape == HitShape(state, worldPos)
    IN  IF Truthy(hitShape)
        THEN [selectShape(state, hitShape.id) EXCEPT !.dragging =
                [shapeId |-> hitShape.id,
                 startWorldPos |-> worldPos,
                 startShapePos |-> [x |-> hitShape.x, y |-> hitShape.y]]]
        ELSE IF TruthyStr(handle)
        THEN [state EXCEPT !.resizing =
                [shapeId |-> selectedShape.id,
                 handle |-> handle,
                 startWorldPos |-> worldPos,
                 startShape |-> selectedShape]]
        ELSE selectShape(state, NullStr)

\* the present that handleMouseDown sets for a plain left button
LeftDown(state, pos) ==
    LET worldPos == screenToWorld(pos, state.transform)
        handle == SelectedHandle(state, worldPos)
        selectedShape == getShapeById(state, state.selectedShapeId)
        hitShape == HitShape(state, worldPos)
    IN  IF TruthyStr(handle)
        THEN [state EXCEPT !.resizing =
                [shapeId |-> selectedShape.id,
                 handle |-> handle,
                 startWorldPos |-> worldPos,
                 startShape |-> selectedShape]]
        ELSE IF Truthy(hitShape)
        THEN [selectShape(state, hitShape.id) EXCEPT !.dragging =
                [shapeId |-> hitShape.id,
                 startWorldPos |-> worldPos,
                 startShapePos |-> [x |-> hitShape.x, y |-> hitShape.y]]]
        ELSE selectShape(state, NullStr)

\* the present that handleMouseMove sets during a resize
ResizeMove(state, worldPos) ==
    LET newRect == applyResize(state.resizing.startShape, state.resizing.handle,
                               worldPos, state.resizing.startWorldPos)
    IN  updateShape(state, state.resizing.shapeId, newRect)

\* a drag that adds the delta to the shape's current position
DragMove_Incremental(state, worldPos) ==
    LET dx == Sub(worldPos.x, state.dragging.startWorldPos.x)
        dy == Sub(worldPos.y, state.dragging.startWorldPos.y)
        shape == getShapeById(state, state.dragging.shapeId)
    IN  IF shape = Null THEN state
        ELSE updateShape(state, state.dragging.shapeId,
                         [x |-> Add(shape.x, dx), y |-> Add(shape.y, dy)])

\* the present that handleMouseMove sets during a drag
DragMove(state, worldPos) ==
    LET dx == Sub(worldPos.x, state.dragging.startWorldPos.x)
        dy == Sub(worldPos.y, state.dragging.startWorldPos.y)
        newX == Add(state.dragging.startShapePos.x, dx)
        newY == Add(state.dragging.startShapePos.y, dy)
    IN  updateShape(state, state.dragging.shapeId, [x |-> newX, y |-> newY])

\* the cursor that handleMouseMove sets when no gesture is active
HoverCursor(state, worldPos) ==
    LET handle == SelectedHandle(state, worldPos)
        selectedShape == getShapeById(state, state.selectedShapeId)
    IN  IF TruthyStr(handle) THEN getCursorForHandle(handle)
        ELSE IF /\ TruthyStr(state.selectedShapeId)
                /\ Truthy(selectedShape)
                /\ selectedShape.type = "rectangle"
                /\ Contains(selectedShape, worldPos)
        THEN "move"
        ELSE "grab"

\* a button-up that ends the resize and leaves the drag
EndGesture_KeepsDragging(state) == [state EXCEPT !.resizing = Null]

\* the present that handleMouseUp commits
EndGesture(state) == [state EXCEPT !.resizing = Null, !.dragging = Null]

-----------------------------------------------------------------------------
(* The observer of a resize/drag gesture: button-down on a handle or a shape *)
(* ("down"), pointer-moves of which one changed the geometry ("changed"),  *)
(* the button-up that commits it ("committed"), an undo right after        *)
(* ("undone") and a redo right after that ("redone").  Of a pan gesture    *)
(* ("pan") it keeps the present and the position at its button-down and    *)
(* the position of its last pointer-move.                                  *)

NoGesture == [phase |-> "none", startShapes |-> <<>>, resultShapes |-> <<>>]

InGesture(state) == Truthy(state.resizing) \/ Truthy(state.dragging)

-----------------------------------------------------------------------------
(* The state after the first render *)

\* one more event is delivered
Event ==
    /\ nEvents < MaxEvents
    /\ nEvents' = nEvents + 1
    /\ UNCHANGED <<nWheel, renderLoop, frames>>

\* an event other than the undo and redo shortcuts
NoShortcut ==
    /\ Event
    /\ lastKey' = ""

\* an event that commits when `commits` holds: the observer notes a commit made
\* after one or more undos, while there was something to redo
Committing(commits) ==
    /\ Event
    /\ lastKey' = IF commits /\ history.future # <<>> THEN "commit-after-undo" ELSE ""

\* useState(() => createHistoryState(loadState() || initialState))
InitialHistory(item) ==
    LET savedState == loadState(item)
    IN  createHistoryState(IF Truthy(savedState) THEN savedState ELSE createInitialState)

Init ==
    /\ \E item \in InitialItems : history = InitialHistory(item)
    /\ isPanning = FALSE
    /\ lastMousePos = Pt(0, 0)
    /\ cursorStyle = "grab"
    /\ held = {}
    /\ gesture = NoGesture
    /\ lastKey = ""
    /\ nEvents = 0
    /\ nWheel = 0
    /\ renderLoop = NewRenderLoop
    /\ frames = [pending |-> {}, nextId |-> 1, nMarks |-> 0, marksSinceFrame |-> 0,
                 calls |-> 0, loopState |-> Null, rendered |-> Null]

\* onMouseDown = handleMouseDown
MouseDown(button, ctrlKey, pos) ==
    LET state == history.present
        pan == button = 1 \/ (button = 0 /\ ctrlKey)
        \* the button-down starts a resize or a drag
        starts == ~pan /\ button = 0
                    /\ (LeftDown(state, pos).resizing # state.resizing
                          \/ LeftDown(state, pos).dragging # state.dragging)
    IN  /\ NoShortcut
        /\ button \notin held
        /\ held' = held \cup {button}
        /\ IF pan
           THEN /\ isPanning' = TRUE
                /\ lastMousePos' = pos
                /\ gesture' = [phase |-> "pan", startState |-> state,
                               startPos |-> pos, lastPos |-> pos]
                /\ UNCHANGED history
           ELSE IF button = 0
           THEN /\ history' = setState(history, LeftDown(state, pos))
                /\ gesture' =
                     IF starts
                     THEN [phase |-> "down", startShapes |-> state.shapes,
                           resultShapes |-> <<>>]
                     ELSE NoGesture
                /\ UNCHANGED <<isPanning, lastMousePos>>
           ELSE /\ gesture' = NoGesture
                /\ UNCHANGED <<history, isPanning, lastMousePos>>
        /\ UNCHANGED cursorStyle

\* onMouseMove = handleMouseMove
MouseMove(pos) ==
    LET state == history.present
        worldPos == screenToWorld(pos, state.transform)
    IN  /\ NoShortcut
        /\ IF Truthy(state.resizing)
           THEN /\ history' = setState(history, ResizeMove(state, worldPos))
                /\ UNCHANGED <<lastMousePos, cursorStyle>>
           ELSE IF Truthy(state.dragging)
           THEN /\ history' = setState(history, DragMove(state, worldPos))
                /\ UNCHANGED <<lastMousePos, cursorStyle>>
           ELSE IF isPanning
           THEN /\ history' = setState(history,
                      setTransform(state,
                          applyPan(state.transform,
                                   [x |-> Sub(pos.x, lastMousePos.x),
                                    y |-> Sub(pos.y, lastMousePos.y)])))
                /\ lastMousePos' = pos
                /\ UNCHANGED cursorStyle
           ELSE /\ cursorStyle' = HoverCursor(state, worldPos)
                /\ UNCHANGED <<history, lastMousePos>>
        /\ gesture' =
             IF gesture.phase \in {"down", "changed"} /\ InGesture(state)
             THEN [gesture EXCEPT !.phase =
                      IF gesture.phase = "changed"
                           \/ history'.present.shapes # state.shapes
                      THEN "changed" ELSE "down"]
             ELSE IF gesture.phase = "pan" /\ isPanning
             THEN [gesture EXCEPT !.lastPos = pos]
             ELSE IF gesture.phase = "replaced"
             THEN gesture
             ELSE NoGesture
        /\ UNCHANGED <<isPanning, held>>

\* handleMouseUp, on the history, the panning flag and the observer
HandleMouseUp ==
    LET state == history.present
    IN  /\ Committing(InGesture(state))
        /\ isPanning' = FALSE
        /\ IF InGesture(state)
           THEN history' = updateStateWithHistory(history, EndGesture(state))
           ELSE UNCHANGED history
        /\ gesture' =
             IF gesture.phase = "changed" /\ InGesture(state)
             THEN [gesture EXCEPT !.phase = "committed",
                                  !.resultShapes = history'.present.shapes]
             ELSE IF gesture.phase = "replaced"
             THEN [gesture EXCEPT !.phase = "released"]
             ELSE NoGesture
        /\ UNCHANGED <<lastMousePos, cursorStyle>>

\* onMouseUp = handleMouseUp
MouseUp(button) ==
    /\ button \in held
    /\ HandleMouseUp
    /\ held' = held \ {button}

\* onMouseLeave = handleMouseUp
MouseLeave ==
    /\ HandleMouseUp
    /\ held' = {}

\* onDoubleClick = handleDoubleClick
DoubleClick(pos) ==
    LET state == history.present
        worldPos == screenToWorld(pos, state.transform)
        newRect == createRectangle(generateId(history), worldPos.x, worldPos.y)
    IN  /\ Committing(TRUE)
        /\ held = {}
        /\ history' = updateStateWithHistory(history, addShape(state, newRect))
        /\ gesture' = NoGesture
        /\ UNCHANGED <<isPanning, lastMousePos, cursorStyle, held>>

\* const zoomDelta = -e.deltaY * 0.001
ZoomDelta(deltaY) == Mul(Num(-deltaY), Frac(1, 1000))

\* handleWheel, on the history and the observers
HandleWheel(deltaY, pos) ==
    LET state == history.present
        zoomDelta == ZoomDelta(deltaY)
    IN  /\ lastKey' = ""
        /\ history' = setState(history,
               setTransform(state, applyZoom(state.transform, zoomDelta, pos)))
        /\ gesture' = NoGesture
        /\ UNCHANGED <<isPanning, lastMousePos, cursorStyle, held, renderLoop, frames>>

\* onWheel = handleWheel
Wheel(deltaY, pos) ==
    /\ nEvents < MaxEvents
    /\ nWheel < MaxWheel
    /\ nEvents' = nEvents + 1
    /\ nWheel' = nWheel + 1
    /\ HandleWheel(deltaY, pos)

\* handleKeyDown with the undo shortcut
KeyUndo ==
    LET newHistory == undo(history)
    IN  /\ Event
        /\ lastKey' = IF newHistory # Null THEN "undo" ELSE "nothing-to-undo"
        /\ history' = IF newHistory # Null THEN newHistory ELSE history
        /\ gesture' = IF gesture.phase = "committed"
                      THEN [gesture EXCEPT !.phase = "undone"]
                      ELSE NoGesture
        /\ UNCHANGED <<isPanning, lastMousePos, cursorStyle, held>>

\* handleKeyDown with the redo shortcut
KeyRedo ==
    LET newHistory == redo(history)
    IN  /\ Event
        /\ lastKey' = IF newHistory # Null THEN "redo" ELSE "nothing-to-redo"
        /\ history' = IF newHistory # Null THEN newHistory ELSE history
        /\ gesture' = IF gesture.phase = "undone"
                      THEN [gesture EXCEPT !.phase = "redone"]
                      ELSE NoGesture
        /\ UNCHANGED <<isPanning, lastMousePos, cursorStyle, held>>

\* renderLoop.markDirty() of the loop rl, with fr the browser's frame bookkeeping:
\* the loop and the bookkeeping after the call
markDirty(rl, fr) ==
    LET marked == scheduleRender([rl EXCEPT !.isDirty = TRUE], fr.nextId)
        requested == marked.animationFrameId = fr.nextId
    IN  [renderLoop |-> marked,
         frames |-> [fr EXCEPT
                        !.pending = IF requested THEN @ \cup {fr.nextId} ELSE @,
                        !.nextId = IF requested THEN @ + 1 ELSE @,
                        !.marksSinceFrame = @ + 1]]

\* handleStorageChange: a storage event for `key`, with `item` in localStorage;
\* renderLoopRef.current?.markDirty() acts on the loop the last effect run
\* created, when there is one
StorageChange(key, item) ==
    LET newState == loadState(item)
        loads == key = STORAGE_KEY /\ Truthy(newState)
        marked == markDirty(renderLoop, frames)
    IN  /\ nEvents < MaxEvents
        /\ nEvents' = nEvents + 1
        /\ UNCHANGED nWheel
        /\ IF loads /\ frames.loopState # Null
           THEN renderLoop' = marked.renderLoop /\ frames' = marked.frames
           ELSE UNCHANGED <<renderLoop, frames>>
        /\ lastKey' = IF loads /\ (history.past # <<>> \/ history.future # <<>>)
                       THEN "storage-load-over-history" ELSE ""
        /\ history' = IF key = STORAGE_KEY /\ Truthy(newState)
                      THEN createHistoryState(newState)
                      ELSE history
        \* the observer notes a load of a state with no gesture in it that
        \* arrives while the left button holds a resize or a drag it started
        /\ gesture' =
             IF loads /\ 0 \in held /\ InGesture(history.present)
                  /\ gesture.phase \in {"down", "changed"}
                  /\ ~InGesture(newState)
             THEN [phase |-> "replaced", loaded |-> newState, panning |-> isPanning]
             ELSE NoGesture
        /\ UNCHANGED <<isPanning, lastMousePos, cursorStyle, held>>

Next ==
    \/ \E b \in Buttons, c \in BOOLEAN, p \in ScreenPoints : MouseDown(b, c, p)
    \/ \E p \in ScreenPoints : MouseMove(p)
    \/ \E b \in Buttons : MouseUp(b)
    \/ MouseLeave
    \/ \E p \in ScreenPoints : DoubleClick(p)
    \/ \E d \in WheelDeltas, p \in ScreenPoints : Wheel(d, p)
    \/ KeyUndo
    \/ KeyRedo
    \/ \E k \in StorageKeys, i \in StorageItems : StorageChange(k, i)

Spec == Init /\ [][Next]_vars

\* the editor with no other tab writing to localStorage
NextLocal ==
    \/ \E b \in Buttons, c \in BOOLEAN, p \in ScreenPoints : MouseDown(b, c, p)
    \/ \E p \in ScreenPoints : MouseMove(p)
    \/ \E b \in Buttons : MouseUp(b)
    \/ MouseLeave
    \/ \E p \in ScreenPoints : DoubleClick(p)
    \/ \E d \in WheelDeltas, p \in ScreenPoints : Wheel(d, p)
    \/ KeyUndo
    \/ KeyRedo

SpecLocal == Init /\ [][NextLocal]_vars

\* the editor under resize gestures: button-downs on the eight handles of the
\* saved rectangle, pointer-moves to near and far positions, button-ups, undos
HandlePoints ==
    {Pt(50, 50), Pt(150, 50), Pt(50, 110), Pt(150, 110),
     Pt(100, 50), Pt(150, 80), Pt(100, 110), Pt(50, 80)}
\* (60,70), (140,100) and (60,60) propose a width or height of exactly 10 from
\* one handle or another; the last two are far outside the rectangle
ResizeTargets ==
    {Pt(60, 70), Pt(140, 100), Pt(60, 60), Pt(100, 80), Pt(1000, 1000), Pt(-1000, -1000)}

NextResize ==
    \/ \E p \in HandlePoints : MouseDown(0, FALSE, p)
    \/ \E p \in ResizeTargets : MouseMove(p)
    \/ MouseUp(0)
    \/ KeyUndo

SpecResize == Init /\ [][NextResize]_vars

\* the editor under wheel events only: WheelEvent.deltaY of -10000, -1000, 500,
\* 1000 and 2000 makes zoomDelta 10, 1, -1/2, -1 and -2
ZoomDeltaYs == {-10000, -1000, 500, 1000, 2000}

\* onWheel = handleWheel, in a run of wheel events
WheelOnly(deltaY, pos) ==
    /\ nWheel < MaxZooms
    /\ nWheel' = nWheel + 1
    /\ UNCHANGED nEvents
    /\ HandleWheel(deltaY, pos)

NextZoom == \E d \in ZoomDeltaYs, p \in ScreenPoints : WheelOnly(d, p)

SpecZoom == Init /\ [][NextZoom]_vars

\* the editor under the plain left button, double-clicks and the wheel
NextLeftButton ==
    \/ \E p \in ScreenPoints : MouseDown(0, FALSE, p)
    \/ \E p \in ScreenPoints : MouseMove(p)
    \/ MouseUp(0)
    \/ \E p \in ScreenPoints : DoubleClick(p)
    \/ \E d \in WheelDeltas, p \in ScreenPoints : Wheel(d, p)

SpecLeftButton == Init /\ [][NextLeftButton]_vars

\* the render loop alone: markDirty calls, animation frames firing, stop
appVars == <<history, isPanning, lastMousePos, cursorStyle, held, gesture, lastKey,
             nEvents, nWheel>>

\* RenderLoop.markDirty
MarkDirty ==
    LET rl == scheduleRender([renderLoop EXCEPT !.isDirty = TRUE], frames.nextId)
        requested == rl.animationFrameId = frames.nextId
    IN  /\ frames.nMarks < MaxMarks
        /\ renderLoop' = rl
        /\ frames' = [frames EXCEPT
                         !.pending = IF requested THEN @ \cup {frames.nextId} ELSE @,
                         !.nextId = IF requested THEN @ + 1 ELSE @,
                         !.nMarks = @ + 1,
                         !.marksSinceFrame = @ + 1]
        /\ UNCHANGED appVars

\* the browser runs the callback of the pending frame id
AnimationFrame(id) ==
    /\ id \in frames.pending
    /\ renderLoop' = [animationFrameId |-> NullId, isDirty |-> FALSE]
    /\ frames' = [frames EXCEPT
                     !.pending = @ \ {id},
                     !.marksSinceFrame = 0,
                     !.calls = IF renderLoop.isDirty THEN @ + 1 ELSE @,
                     !.rendered = IF renderLoop.isDirty THEN frames.loopState ELSE @]
    /\ UNCHANGED appVars

\* RenderLoop.stop
Stop ==
    /\ renderLoop' = [renderLoop EXCEPT !.animationFrameId = NullId]
    /\ frames' = [frames EXCEPT !.pending = @ \ {renderLoop.animationFrameId}]
    /\ UNCHANGED appVars

FrameStep == \E id \in frames.pending : AnimationFrame(id)

NextRender ==
    \/ MarkDirty
    \/ FrameStep
    \/ Stop

SpecRender == Init /\ [][NextRender]_vars

\* the editor with its render loop: the effect of App that depends on [state].
\* React runs it after the commit of a render with a new present, at a time of
\* its choosing: first the cleanup of the previous run (renderLoop.stop()),
\* then the body: a new RenderLoop whose callback paints that render's state,
\* renderLoop.markDirty(), and resizeCanvas() with its own markDirty()
RunEffect ==
    LET stopped == [frames EXCEPT !.pending = @ \ {renderLoop.animationFrameId}]
        first == markDirty(NewRenderLoop, stopped)
        second == markDirty(first.renderLoop, first.frames)
    IN  /\ frames.loopState # history.present
        /\ renderLoop' = second.renderLoop
        /\ frames' = [second.frames EXCEPT !.loopState = history.present]
        /\ UNCHANGED appVars

PaintPoint == Pt(50, 50)
PaintItems == {NoItem, JSONstringify(SavedAtRest)}

NextPaint ==
    \/ RunEffect
    \/ FrameStep
    \/ DoubleClick(PaintPoint)
    \/ \E d \in WheelDeltas : Wheel(d, PaintPoint)
    \/ KeyUndo
    \/ KeyRedo
    \/ \E i \in PaintItems : StorageChange(STORAGE_KEY, i)

\* React runs a pending effect, and the browser fires a requested frame
SpecPaint ==
    /\ Init
    /\ [][NextPaint]_vars
    /\ WF_vars(RunEffect)
    /\ WF_vars(FrameStep)

-----------------------------------------------------------------------------
(* Steps and sets the properties speak of *)

MoveStep == \E p \in ScreenPoints : MouseMove(p)
UpStep == MouseLeave \/ \E b \in Buttons : MouseUp(b)
DoubleClickStep == \E p \in ScreenPoints : DoubleClick(p)
StorageStep == \E k \in StorageKeys, i \in StorageItems : StorageChange(k, i)
WheelStep == \E d \in WheelDeltas, p \in ScreenPoints : Wheel(d, p)
\* a button-down with the middle button or with Ctrl and the left button
PanDownStep ==
    \E b \in Buttons, c \in BOOLEAN, p \in ScreenPoints :
        (b = 1 \/ (b = 0 /\ c)) /\ MouseDown(b, c, p)
\* a commit: the button-up (or leave) that ends a resize or a drag, or a
\* double-click that creates a shape
CommitStep == (InGesture(history.present) /\ UpStep) \/ DoubleClickStep

PastAndFuture(h) ==
    {h.past[i] : i \in 1..Len(h.past)} \cup {h.future[i] : i \in 1..Len(h.future)}

\* the states the history functions are tried on, with every reachable history
SampleStates(h) == Snapshots(h) \cup {createInitialState, EndGesture(h.present)}

-----------------------------------------------------------------------------
(* Properties *)

\* C1: after a completed resize or drag gesture (button-down on a handle or a
\* shape, pointer-moves that change the geometry, button-up), one undo makes
\* present.shapes the shapes before the button-down, and a redo after it makes
\* them the result of the gesture.
C1_UndoRestoresPreGesture ==
    /\ gesture.phase = "undone" => history.present.shapes = gesture.startShapes
    /\ gesture.phase = "redone" => history.present.shapes = gesture.resultShapes

\* C2: every snapshot in past or in future has resizing and dragging null.
C2_NoGestureInPastOrFuture ==
    \A s \in PastAndFuture(history) : ~Truthy(s.resizing) /\ ~Truthy(s.dragging)

\* C3: present.resizing and present.dragging are never both non-null.
C3_ResizingXorDragging ==
    ~(Truthy(history.present.resizing) /\ Truthy(history.present.dragging))

\* C4: with no button down since the last button-up or leave, a pointer-move
\* leaves present.shapes, present.selectedShapeId and present.transform unchanged.
C4_IdleMoveChangesNothing ==
    [][(held = {} /\ MoveStep) =>
          /\ history'.present.shapes = history.present.shapes
          /\ history'.present.selectedShapeId = history.present.selectedShapeId
          /\ history'.present.transform = history.present.transform]_vars

\* C5: no two of panning, dragging and resizing are active together.
C5_ModesExclusive ==
    /\ ~(isPanning /\ Truthy(history.present.dragging))
    /\ ~(isPanning /\ Truthy(history.present.resizing))
    /\ ~(Truthy(history.present.dragging) /\ Truthy(history.present.resizing))

\* C6: during a resize or drag, a pointer-move leaves past and future unchanged,
\* and the button-up (or leave) that ends it appends exactly one entry to past.
C6_OneEntryPerGesture ==
    [][/\ (InGesture(history.present) /\ MoveStep) =>
             /\ history'.past = history.past
             /\ history'.future = history.future
       /\ (InGesture(history.present) /\ UpStep) =>
             /\ Len(history'.past) = Len(history.past) + 1
             /\ SubSeq(history'.past, 1, Len(history.past)) = history.past]_vars

\* a gesture of pointer-moves that changed the geometry has been committed
C6_Witness ==
    /\ gesture.phase = "committed"
    /\ Len(history.past) >= 1

\* C7: pushHistory(h, s) has h.past with h.present appended as past, s as
\* present and an empty future.
C7_PushHistory ==
    \A s \in SampleStates(history) :
        LET r == pushHistory(history, s)
            n == Len(history.past)
        IN  /\ Len(r.past) = n + 1
            /\ \A i \in 1..n : r.past[i] = history.past[i]
            /\ r.past[n + 1] = history.present
            /\ r.present = s
            /\ Len(r.future) = 0

\* a history with entries in past and in future, and a sample state that is
\* not its present
C7_Witness ==
    /\ Len(history.past) >= 1
    /\ Len(history.future) >= 1
    /\ \E s \in SampleStates(history) : s # history.present

\* C8: undo with an empty past signals nothing-to-undo and leaves the history
\* as it was; otherwise the last entry of past becomes present, past loses it,
\* and the old present is put in front of future, the rest of future kept.
C8_Undo ==
    [][KeyUndo =>
          LET n == Len(history.past)
          IN  IF n = 0
              THEN /\ undo(history) = Null
                   /\ lastKey' = "nothing-to-undo"
                   /\ history' = history
              ELSE /\ lastKey' = "undo"
                   /\ history'.present = history.past[n]
                   /\ history'.past = SubSeq(history.past, 1, n - 1)
                   /\ Len(history'.future) = Len(history.future) + 1
                   /\ Head(history'.future) = history.present
                   /\ Tail(history'.future) = history.future]_vars

\* an undo has just moved the present in front of a non-empty future
C8_Witness ==
    /\ lastKey = "undo"
    /\ Len(history.future) >= 2

\* C9: redo with an empty future leaves the history as it was; otherwise the
\* first entry of future becomes present, future loses it, and the old present
\* is appended to past.
C9_Redo ==
    [][KeyRedo =>
          LET n == Len(history.past)
          IN  IF Len(history.future) = 0
              THEN /\ redo(history) = Null
                   /\ history' = history
              ELSE /\ history'.present = Head(history.future)
                   /\ history'.future = Tail(history.future)
                   /\ Len(history'.past) = n + 1
                   /\ history'.past[n + 1] = history.present
                   /\ SubSeq(history'.past, 1, n) = history.past]_vars

\* a redo has just moved the present to the end of a non-empty past
C9_Witness ==
    /\ lastKey = "redo"
    /\ Len(history.past) >= 2

\* C10: undo(push(h, s)) has the present and the past of h, and
\* redo(undo(push(h, s))) has s as present.
C10_RoundTrip ==
    \A s \in SampleStates(history) :
        LET u == undo(pushHistory(history, s))
        IN  /\ u # Null
            /\ u.present = history.present
            /\ u.past = history.past
            /\ redo(u) # Null
            /\ redo(u).present = s

\* a history with two entries in past, with a sample state that is neither
\* its present nor its oldest entry
C10_Witness ==
    /\ Len(history.past) >= 2
    /\ \E s \in SampleStates(history) : s # history.present /\ s # history.past[1]

\* C11: right after a commit (a button-up that ends a resize or drag, or a
\* double-click create) future is empty and redo has nothing to redo, also when
\* the commit follows undos.
C11_CommitDiscardsBranch ==
    [][CommitStep => history'.future = <<>> /\ redo(history') = Null]_vars

\* a commit has just been made while there was something to redo
C11_Witness ==
    /\ lastKey = "commit-after-undo"
    /\ Len(history.past) >= 1

\* C12: the events of a pan gesture (button-down with the middle button or with
\* Ctrl and the left button, pointer-moves and the button-up while panning) and
\* a wheel zoom leave past and future unchanged and change nothing of the
\* present but its transform.
C12_PanZoomOnlyTransform ==
    [][(PanDownStep \/ (isPanning /\ (MoveStep \/ UpStep)) \/ WheelStep) =>
          /\ history'.past = history.past
          /\ history'.future = history.future
          /\ history'.present = [history.present EXCEPT
                                    !.transform = history'.present.transform]]_vars

\* C13: an undo or a redo leaves present.transform as it was.
C13_UndoKeepsViewport ==
    [][(KeyUndo \/ KeyRedo) =>
          history'.present.transform = history.present.transform]_vars

\* C14: with no other tab writing, present.selectedShapeId is null or the id
\* of a shape in present.shapes.
C14_SelectionExists ==
    LET state == history.present
    IN  state.selectedShapeId = NullStr
          \/ \E i \in 1..Len(state.shapes) : state.shapes[i].id = state.selectedShapeId

\* two shapes have been created and a click has selected the first again
C14_Witness ==
    LET state == history.present
    IN  /\ Len(state.shapes) = 2
        /\ state.selectedShapeId = state.shapes[1].id
        /\ Len(history.past) >= 2

AllHandles == {handleOrder[i] : i \in 1..Len(handleOrder)}
LeftHandles == {"top-left", "left", "bottom-left"}
RightHandles == {"top-right", "right", "bottom-right"}
TopHandles == {"top-left", "top", "top-right"}
BottomHandles == {"bottom-left", "bottom", "bottom-right"}

AtLeastMinSize(rect) == Geq(rect.width, Num(MIN_SIZE)) /\ Geq(rect.height, Num(MIN_SIZE))

\* the world positions handleMouseMove can pass to applyResize
ResizeWorldTargets == {screenToWorld(p, history.present.transform) : p \in ResizeTargets}

\* C15: every shape of the present, of past and of future is at least 10 wide
\* and 10 high, and for the rectangle and start position of the active resize
\* applyResize returns such a rectangle for every handle and every position.
C15_MinimumSize ==
    /\ \A s \in Snapshots(history) : \A i \in 1..Len(s.shapes) : AtLeastMinSize(s.shapes[i])
    /\ Truthy(history.present.resizing) =>
          LET r == history.present.resizing
          IN  \A h \in AllHandles, p \in ResizeWorldTargets :
                  AtLeastMinSize(applyResize(r.startShape, h, p, r.startWorldPos))

\* a resize far beyond the opposite corner has been committed: a snapshot in
\* past holds the rectangle clamped to 10 by 10
C15_Witness ==
    \E i \in 1..Len(history.past) : \E j \in 1..Len(history.past[i].shapes) :
        LET shape == history.past[i].shapes[j]
        IN  /\ Truthy(history.past[i].resizing)
            /\ shape.width = Num(MIN_SIZE)
            /\ shape.height = Num(MIN_SIZE)

\* C16: applyResize leaves every edge the handle does not drag where it was:
\* the right edge for the left handles, the left edge for the right handles,
\* the bottom edge for the top handles, the top edge for the bottom handles;
\* top and bottom leave x and width, left and right leave y and height.
C16_UndraggedEdgesFixed ==
    Truthy(history.present.resizing) =>
        LET r == history.present.resizing
            o == r.startShape
        IN  \A p \in ResizeWorldTargets :
                LET n == applyResize(o, r.handle, p, r.startWorldPos)
                IN  /\ r.handle \in LeftHandles => Add(n.x, n.width) = Add(o.x, o.width)
                    /\ r.handle \in RightHandles => n.x = o.x
                    /\ r.handle \in TopHandles => Add(n.y, n.height) = Add(o.y, o.height)
                    /\ r.handle \in BottomHandles => n.y = o.y
                    /\ r.handle \in {"top", "bottom"} => n.x = o.x /\ n.width = o.width
                    /\ r.handle \in {"left", "right"} => n.y = o.y /\ n.height = o.height

\* a resize by the left handle is active and has clamped the width to 10
C16_Witness ==
    /\ Truthy(history.present.resizing)
    /\ history.present.resizing.handle = "left"
    /\ LET n == getShapeById(history.present, history.present.resizing.shapeId)
       IN  n # Null /\ n.width = Num(MIN_SIZE) /\ n.x # history.present.resizing.startShape.x

\* C17: a proposed width or height of exactly 10 is applied as proposed: the
\* right and bottom handles give size 10 with the origin unchanged, the left
\* and top handles give size 10 with the origin moved by the whole delta; the
\* bottom-right handle of the 100x60 rectangle at (50,50) dragged from (150,110)
\* to (60,70) gives width 10 and height 20 at (50,50).
C17_ExactMinimumApplied ==
    Truthy(history.present.resizing) =>
        LET r == history.present.resizing
            o == r.startShape
            h == r.handle
            min == Num(MIN_SIZE)
        IN  \A p \in ResizeWorldTargets :
                LET n == applyResize(o, h, p, r.startWorldPos)
                    dx == Sub(p.x, r.startWorldPos.x)
                    dy == Sub(p.y, r.startWorldPos.y)
                IN  /\ (h \in RightHandles /\ Add(o.width, dx) = min) =>
                          n.width = min /\ n.x = o.x
                    /\ (h \in BottomHandles /\ Add(o.height, dy) = min) =>
                          n.height = min /\ n.y = o.y
                    /\ (h \in LeftHandles /\ Sub(o.width, dx) = min) =>
                          n.width = min /\ n.x = Add(o.x, dx)
                    /\ (h \in TopHandles /\ Sub(o.height, dy) = min) =>
                          n.height = min /\ n.y = Add(o.y, dy)
                    /\ (/\ h = "bottom-right" /\ o = SavedRect
                        /\ r.startWorldPos = Pt(150, 110) /\ p = Pt(60, 70)) =>
                          n = [o EXCEPT !.width = Num(10), !.height = Num(20)]

\* the bottom-right handle of the 100x60 rectangle has been dragged from
\* (150,110) to (60,70)
C17_Witness ==
    /\ Truthy(history.present.resizing)
    /\ history.present.resizing.handle = "bottom-right"
    /\ history.present.resizing.startShape = SavedRect
    /\ history.present.resizing.startWorldPos = Pt(150, 110)
    /\ getShapeById(history.present, "shape_9") =
          [SavedRect EXCEPT !.width = Num(10), !.height = Num(20)]

\* C18: from zoom 1, after any sequence of wheel zooms, present.transform.zoom
\* is at least 0.1 and at most 5.
C18_ZoomClamped ==
    /\ Leq(ZOOM_MIN, history.present.transform.zoom)
    /\ Leq(history.present.transform.zoom, ZOOM_MAX)

\* repeated wheel zooms have driven the zoom to the lower limit
C18_Witness ==
    /\ nWheel >= 2
    /\ history.present.transform.zoom = ZOOM_MIN

\* C19: for the present transform t, every cursor position c and every
\* zoomDelta, the world point under c before applyZoom(t, zoomDelta, c) is
\* under c after it, also when the new zoom is clamped.
C19_ZoomAnchor ==
    LET t == history.present.transform
    IN  \A d \in ZoomDeltaYs, c \in ScreenPoints :
            worldToScreen(screenToWorld(c, t), applyZoom(t, ZoomDelta(d), c)) = c

\* a wheel zoom has been clamped to the upper limit and has moved the pan, and
\* every zoom-in from here is clamped again
C19_Witness ==
    /\ nWheel >= 1
    /\ history.present.transform.zoom = ZOOM_MAX
    /\ history.present.transform.panX # Num(0)

\* world points, with negative and fractional coordinates among them
WorldPoints == ScreenPoints \cup {[x |-> Num(-7), y |-> Frac(1, 3)], Pt(0, 0)}

\* C20: for the present transform t (its zoom is not 0) and every point p,
\* screenToWorld(worldToScreen(p, t), t) = p.
C20_TransformRoundTrip ==
    LET t == history.present.transform
    IN  t.zoom # Num(0) =>
            \A p \in WorldPoints : screenToWorld(worldToScreen(p, t), t) = p

\* wheel zooms have made a transform with a zoom other than 1 and a pan other
\* than 0
C20_Witness ==
    /\ history.present.transform.zoom \notin {Num(0), Num(1)}
    /\ history.present.transform.panX # Num(0)
    /\ history.present.transform.panY # Num(0)

\* C21: right after a button-up, and after the pointer leaves the canvas, the
\* panning flag is off and neither a resize nor a drag is active.
C21_UpEndsGesture ==
    [][UpStep =>
          /\ ~isPanning'
          /\ ~Truthy(history'.present.resizing)
          /\ ~Truthy(history'.present.dragging)]_vars

\* a button-up has just ended a drag or resize that had changed the geometry
C21_Witness ==
    /\ gesture.phase = "committed"
    /\ ~isPanning
    /\ ~InGesture(history.present)

\* C22: a double-click appends one 100x60 rectangle at the clicked world
\* position to present.shapes, with an id no shape has, selects it, leaves the
\* other shapes and the rest of the present as they were, appends the old
\* present to past and empties future.
C22_DoubleClickCreates ==
    [][\A p \in ScreenPoints : DoubleClick(p) =>
          LET old == history.present
              new == history'.present
              n == Len(old.shapes)
              w == screenToWorld(p, old.transform)
          IN  /\ Len(new.shapes) = n + 1
              /\ SubSeq(new.shapes, 1, n) = old.shapes
              /\ new.shapes[n + 1].x = w.x
              /\ new.shapes[n + 1].y = w.y
              /\ new.shapes[n + 1].width = Num(100)
              /\ new.shapes[n + 1].height = Num(60)
              /\ \A i \in 1..n : old.shapes[i].id # new.shapes[n + 1].id
              /\ new.selectedShapeId = new.shapes[n + 1].id
              /\ new.transform = old.transform
              /\ new.resizing = old.resizing
              /\ new.dragging = old.dragging
              /\ history'.past = Append(history.past, old)
              /\ history'.future = <<>>]_vars

\* a double-click has just created a rectangle next to the ones there were
C22_Witness ==
    LET n == Len(history.present.shapes)
    IN  /\ n >= 2
        /\ Len(history.past) >= 1
        /\ history.past[Len(history.past)].shapes = SubSeq(history.present.shapes, 1, n - 1)
        /\ history.present.selectedShapeId = history.present.shapes[n].id
        /\ history.future = <<>>

\* the states another tab can have saved
SavedStates == {createInitialState, SavedAtRest, SavedInDrag}

\* C23: a storage event for the editor's key with a saved state in localStorage
\* makes that state the present and empties past and future; with no item or
\* an unparsable one, and for another key, the history stays as it was.
C23_StorageReplacesHistory ==
    [][\A k \in StorageKeys, i \in StorageItems : StorageChange(k, i) =>
          IF k = STORAGE_KEY /\ i \notin {NoItem, CorruptItem}
          THEN /\ \E s \in SavedStates : i = JSONstringify(s) /\ history'.present = s
               /\ history'.past = <<>>
               /\ history'.future = <<>>
          ELSE history' = history]_vars

\* a storage event has just replaced a history that had entries
C23_Witness ==
    /\ lastKey = "storage-load-over-history"
    /\ history.past = <<>>
    /\ history.future = <<>>

\* C24: a pointer-move during a resize makes the resized shape
\* applyResize(startShape, handle, world position, startWorldPos), and one
\* during a drag puts the dragged shape's origin at startShapePos + (world
\* position - startWorldPos) and keeps its size; nothing else of the present
\* changes, so the state after a sequence of moves is that of its last move.
C24_MovesFromGestureStart ==
    [][\A p \in ScreenPoints :
          (InGesture(history.present) /\ held' = held /\ MouseMove(p)) =>
          LET old == history.present
              new == history'.present
              w == screenToWorld(p, old.transform)
              r == old.resizing
              g == old.dragging
          IN  IF Truthy(r)
              THEN new = [old EXCEPT !.shapes =
                            [i \in 1..Len(old.shapes) |->
                                IF old.shapes[i].id = r.shapeId
                                THEN applyResize(r.startShape, r.handle, w, r.startWorldPos)
                                ELSE old.shapes[i]]]
              ELSE new = [old EXCEPT !.shapes =
                            [i \in 1..Len(old.shapes) |->
                                IF old.shapes[i].id = g.shapeId
                                THEN [old.shapes[i] EXCEPT
                                        !.x = Add(g.startShapePos.x, Sub(w.x, g.startWorldPos.x)),
                                        !.y = Add(g.startShapePos.y, Sub(w.y, g.startWorldPos.y))]
                                ELSE old.shapes[i]]]]_vars

\* pointer-moves of a drag have moved the shape away from its start position
C24_Witness ==
    LET g == history.present.dragging
    IN  /\ gesture.phase = "changed"
        /\ Truthy(g)
        /\ ~Truthy(history.present.resizing)
        /\ LET shape == getShapeById(history.present, g.shapeId)
           IN  shape # Null /\ [x |-> shape.x, y |-> shape.y] # g.startShapePos

\* the order of the handles: the corners, then the edges
PriorityOrder ==
    <<"top-left", "top-right", "bottom-left", "bottom-right",
      "top", "right", "bottom", "left">>
CornerHandles == {"top-left", "top-right", "bottom-left", "bottom-right"}

\* offsets from a handle, in pixels: at distance 0, 8 (three of them, one
\* about 7.07) and more than 8 (9 and about 8.49)
HitOffsets == {<<0, 0>>, <<8, 0>>, <<0, -8>>, <<-5, 5>>, <<9, 0>>, <<6, 6>>}

\* the screen positions at those offsets from the handles of rect
HitTestPoints(rect, transform) ==
    {[x |-> Add(worldToScreen(getHandlePositions(rect)[h], transform).x, Num(o[1])),
      y |-> Add(worldToScreen(getHandlePositions(rect)[h], transform).y, Num(o[2]))] :
        h \in AllHandles, o \in HitOffsets}

\* the handle h of rect is at most 8 pixels from the screen position pt
WithinEightPixels(h, rect, transform, pt) ==
    LET s == worldToScreen(getHandlePositions(rect)[h], transform)
        dx == Sub(s.x, pt.x)
        dy == Sub(s.y, pt.y)
    IN  Leq(Add(Mul(dx, dx), Mul(dy, dy)), Num(64))

\* C25: at the present zoom, for the selected rectangle and screen positions
\* around its handles, hitTestHandle returns the first handle of the order
\* top-left, top-right, bottom-left, bottom-right, top, right, bottom, left
\* that is at most 8 pixels away, and no handle when none is; a corner wins
\* over an edge.
C25_HitTestHandle ==
    LET state == history.present
        t == state.transform
        rect == getShapeById(state, state.selectedShapeId)
    IN  Truthy(rect) =>
            \A pt \in HitTestPoints(rect, t) :
                LET h == hitTestHandle(screenToWorld(pt, t), rect, t)
                    inRange == {i \in 1..8 : WithinEightPixels(PriorityOrder[i], rect, t, pt)}
                IN  /\ inRange = {} => h = NullStr
                    /\ inRange # {} => h = PriorityOrder[MinOf(inRange)]
                    /\ (\E i \in inRange : PriorityOrder[i] \in CornerHandles) =>
                          h \in CornerHandles

\* zoomed out to the lower limit, where a position is within 8 pixels of a
\* corner handle and of an edge handle of the selected rectangle
C25_Witness ==
    LET state == history.present
        t == state.transform
        rect == getShapeById(state, state.selectedShapeId)
    IN  /\ Truthy(rect)
        /\ t.zoom = ZOOM_MIN
        /\ \E pt \in HitTestPoints(rect, t) :
              /\ \E c \in CornerHandles : WithinEightPixels(c, rect, t, pt)
              /\ \E h \in AllHandles \ CornerHandles : WithinEightPixels(h, rect, t, pt)

\* the indices of the shapes whose rectangle, boundary included, contains w
Containing(state, w) ==
    {i \in 1..Len(state.shapes) :
        /\ Leq(state.shapes[i].x, w.x)
        /\ Leq(w.x, Add(state.shapes[i].x, state.shapes[i].width))
        /\ Leq(state.shapes[i].y, w.y)
        /\ Leq(w.y, Add(state.shapes[i].y, state.shapes[i].height))}

\* C26: a plain left button-down on a resize handle of the selected shape sets
\* resizing with that handle, the selected shape as startShape and the world
\* position of the button-down as startWorldPos, and leaves selectedShapeId and
\* shapes unchanged, also when another shape contains the position.
C26_DownOnHandleResizes ==
    [][\A p \in ScreenPoints :
          LET old == history.present
              new == history'.present
              w == screenToWorld(p, old.transform)
              handle == SelectedHandle(old, w)
          IN  (/\ 0 \notin held /\ 0 \in held'
               /\ lastMousePos' = lastMousePos
               /\ MouseDown(0, FALSE, p)
               /\ TruthyStr(handle)) =>
                  LET selected == getShapeById(old, old.selectedShapeId)
                  IN  /\ new.resizing = [shapeId |-> old.selectedShapeId,
                                          handle |-> handle,
                                          startWorldPos |-> w,
                                          startShape |-> selected]
                      /\ new.selectedShapeId = old.selectedShapeId
                      /\ new.shapes = old.shapes]_vars

\* a resize has started at a position that another shape contains
C26_Witness ==
    LET state == history.present
        r == state.resizing
    IN  /\ Truthy(r)
        /\ r.shapeId = state.selectedShapeId
        /\ r.startShape = getShapeById(state, r.shapeId)
        /\ \E i \in Containing(state, r.startWorldPos) : state.shapes[i].id # r.shapeId

\* C27: a plain left button-down on no handle of the selected shape selects the
\* first shape in creation order that contains the world position and starts a
\* drag from that shape's origin; when no shape contains it, the selection
\* becomes null and resizing and dragging stay as they were.
C27_DownOnShapeDrags ==
    [][\A p \in ScreenPoints :
          LET old == history.present
              new == history'.present
              w == screenToWorld(p, old.transform)
              hits == Containing(old, w)
          IN  (/\ 0 \notin held /\ 0 \in held'
               /\ lastMousePos' = lastMousePos
               /\ MouseDown(0, FALSE, p)
               /\ ~TruthyStr(SelectedHandle(old, w))) =>
                  /\ new.shapes = old.shapes
                  /\ IF hits # {}
                     THEN LET first == old.shapes[MinOf(hits)]
                          IN  /\ new.selectedShapeId = first.id
                              /\ new.dragging = [shapeId |-> first.id,
                                                  startWorldPos |-> w,
                                                  startShapePos |-> [x |-> first.x, y |-> first.y]]
                     ELSE /\ new.selectedShapeId = NullStr
                          /\ new.resizing = old.resizing
                          /\ new.dragging = old.dragging]_vars

\* a drag of the first shape has started at a position that the second shape
\* contains too
C27_Witness ==
    LET state == history.present
        g == state.dragging
    IN  /\ Truthy(g)
        /\ Len(state.shapes) >= 2
        /\ g.shapeId = state.shapes[1].id
        /\ state.selectedShapeId = state.shapes[1].id
        /\ g.startShapePos = [x |-> state.shapes[1].x, y |-> state.shapes[1].y]
        /\ {1, 2} \subseteq Containing(state, g.startWorldPos)

\* C28: during a pan gesture that started at screen position s and whose last
\* pointer-move was at e, the pan is the pan at the button-down plus e - s, and
\* zoom, shapes and selection are those at the button-down.
C28_PanDelta ==
    gesture.phase = "pan" =>
        LET old == gesture.startState
            new == history.present
        IN  /\ new.transform.panX =
                  Add(old.transform.panX, Sub(gesture.lastPos.x, gesture.startPos.x))
            /\ new.transform.panY =
                  Add(old.transform.panY, Sub(gesture.lastPos.y, gesture.startPos.y))
            /\ new.transform.zoom = old.transform.zoom
            /\ new.shapes = old.shapes
            /\ new.selectedShapeId = old.selectedShapeId

\* C29: every step leaves the entries past had where they were, unchanged, and
\* at most appends to them, unless it is an undo or a storage event.
C29_PastFrozen ==
    [][\/ /\ Len(history'.past) >= Len(history.past)
          /\ SubSeq(history'.past, 1, Len(history.past)) = history.past
       \/ KeyUndo
       \/ StorageStep]_vars

\* pointer-moves change the geometry while past has an entry
C29_Witness ==
    /\ gesture.phase = "changed"
    /\ Len(history.past) >= 1
    /\ history.past[1].shapes # history.present.shapes

\* C30: at most one animation frame is pending; a frame that fires after one
\* or more markDirty calls invokes the render callback exactly once, and a frame
\* that fires with the dirty flag clear does not invoke it.
C30_RenderCoalesces ==
    [][/\ Cardinality(frames'.pending) <= 1
       /\ FrameStep =>
             /\ frames.marksSinceFrame >= 1 => frames'.calls = frames.calls + 1
             /\ ~renderLoop.isDirty => frames'.calls = frames.calls]_vars

\* a frame has fired after three markDirty calls and has rendered once
C30_Witness ==
    /\ frames.nMarks = 3
    /\ frames.calls = 1
    /\ frames.pending = {}
    /\ frames.nextId = 2
    /\ ~renderLoop.isDirty

-----------------------------------------------------------------------------
(* C31 *)

\* the render callback has run in this step
CallbackRuns == frames'.calls > frames.calls

\* whenever the last paint is not of the present, a paint of the present follows
EventuallyPaintsPresent ==
    (frames.rendered # history.present) ~> (frames.rendered = history.present)

\* C31: after every change of present, while frames keep firing, the render
\* callback eventually runs with the latest present, and no run of the callback
\* paints a state other than the present of that moment
C31_RepaintsLatest ==
    /\ EventuallyPaintsPresent
    /\ [][CallbackRuns => frames.loopState = history.present]_vars

\* what the code does keep: after every change of present, while frames keep
\* firing and the effect is run, the render callback eventually runs with the
\* latest present; every run of the callback paints the state of the loop the
\* last effect run created, and no frame of a stopped loop stays pending
C31_RepaintsLatestAfterEffect ==
    /\ EventuallyPaintsPresent
    /\ [][CallbackRuns => frames'.rendered = frames.loopState]_vars
    /\ [](frames.pending \subseteq {renderLoop.animationFrameId})

\* the present was changed three times, the last time by a redo, and is painted
C31_Witness ==
    /\ nEvents >= 3
    /\ lastKey = "redo"
    /\ frames.calls >= 2
    /\ frames.rendered = history.present


\* a frame requested by handleStorageChange on the loop of the replaced state
\* has fired before the effect ran again: the state before the load is painted
C31_StalePaintAfterLoad ==
    /\ nEvents = 1
    /\ history.present = SavedAtRest
    /\ frames.loopState = createInitialState
    /\ frames.calls = 2
    /\ frames.rendered = createInitialState

-----------------------------------------------------------------------------
(* C32 *)

ShapeIds(state) == {state.shapes[i].id : i \in 1..Len(state.shapes)}

\* C32: with no other tab writing, whenever present.resizing or
\* present.dragging is set, its shapeId is the id of a shape in present.shapes.
C32_GestureShapeExists ==
    LET state == history.present
    IN  /\ Truthy(state.resizing) => state.resizing.shapeId \in ShapeIds(state)
        /\ Truthy(state.dragging) => state.dragging.shapeId \in ShapeIds(state)

\* an undo has made a snapshot with dragging set the present
C32_Witness ==
    LET state == history.present
    IN  /\ lastKey = "undo"
        /\ Truthy(state.dragging)
        /\ state.dragging.shapeId \in ShapeIds(state)
        /\ history.future # <<>>
        /\ ~InGesture(history.future[1])

-----------------------------------------------------------------------------
(* C33 *)

\* the snapshots of a history in order: past, then present, then future
Timeline(h) == h.past \o <<h.present>> \o h.future

\* C33: redo(undo(h)) = h when h.past is not empty, undo(redo(h)) = h when
\* h.future is not empty, and both keep length(past) + length(future) and the
\* sequence past, present, future.
C33_UndoRedoInverse ==
    LET h == history
    IN  /\ h.past # <<>> =>
              /\ undo(h) # Null
              /\ redo(undo(h)) = h
              /\ Len(undo(h).past) + Len(undo(h).future) = Len(h.past) + Len(h.future)
              /\ Timeline(undo(h)) = Timeline(h)
        /\ h.future # <<>> =>
              /\ redo(h) # Null
              /\ undo(redo(h)) = h
              /\ Len(redo(h).past) + Len(redo(h).future) = Len(h.past) + Len(h.future)
              /\ Timeline(redo(h)) = Timeline(h)

\* a history with something to undo and something to redo, its three
\* snapshots all different
C33_Witness ==
    /\ history.past # <<>>
    /\ history.future # <<>>
    /\ history.past[Len(history.past)] # history.present
    /\ history.future[1] # history.present
    /\ history.future[1] # history.past[Len(history.past)]

-----------------------------------------------------------------------------
(* C34 *)

\* C34: a left button-down that sets dragging changes neither the shapes nor
\* past and future, and a button-up while dragging is set pushes one history
\* entry whatever the pointer did in between: past grows by one, future is
\* emptied and the shapes stay; with no change since the button-down the
\* shapes are those before the click.
C34_ClickPushesEntry ==
    [][/\ (/\ 0 \notin held
            /\ 0 \in held'
            /\ history' # history
            /\ Truthy(history'.present.dragging))
           => /\ history'.present.shapes = history.present.shapes
              /\ history'.past = history.past
              /\ history'.future = history.future
       /\ (/\ 0 \in held
            /\ 0 \notin held'
            /\ Truthy(history.present.dragging))
           => /\ Len(history'.past) = Len(history.past) + 1
              /\ history'.future = <<>>
              /\ history'.present.shapes = history.present.shapes
              /\ gesture.phase = "down" => history'.present.shapes = gesture.startShapes
      ]_vars

\* a click on a shape, with no move, has just pushed an entry and emptied a
\* future that held a snapshot: the pushed entry has dragging set and the
\* shapes of the present
C34_Witness ==
    /\ lastKey = "commit-after-undo"
    /\ history.future = <<>>
    /\ history.past # <<>>
    /\ Truthy(history.past[Len(history.past)].dragging)
    /\ ~InGesture(history.present)
    /\ history.past[Len(history.past)].shapes = history.present.shapes
    /\ history.past[Len(history.past)].dragging.startShapePos =
          [x |-> history.present.shapes[1].x, y |-> history.present.shapes[1].y]

-----------------------------------------------------------------------------
(* C35 *)

C35_ReplacementEndsGestureNoPan ==
    gesture.phase \in {"replaced", "released"} =>
        /\ history.past = <<>>
        /\ history.future = <<>>
        /\ history.present.shapes = gesture.loaded.shapes
        /\ ~InGesture(history.present)
        /\ ~gesture.panning => history.present = gesture.loaded

\* the left button was released after a load that replaced a drag, and the
\* history holds the loaded state alone
C35_Witness ==
    /\ gesture.phase = "released"
    /\ ~gesture.panning
    /\ history = createHistoryState(gesture.loaded)
    /\ gesture.loaded.shapes # <<>>

\* a pan was active as well when the load replaced the drag, and a
\* pointer-move has panned the loaded state
C35_PannedAfterLoad ==
    /\ gesture.phase = "replaced"
    /\ gesture.panning
    /\ history.present.transform # gesture.loaded.transform

====
